---- MODULE Spec2Model ----
(***************************************************************************)
(* Right-of-way manager: the geometry engine of widget.tsx                 *)
(* (buildRowPolygon, computeVertexAnalytics, decimalToDMS, calculateArea,  *)
(* calculatePerimeter) and the CSV export of exportVerticesCSV.            *)
(*                                                                         *)
(* Numbers are fixed point: coordinates and widths are whole metres,       *)
(* lengths are centimetres, areas are square metres and angles are         *)
(* micro-degrees (Deg(1) = 1000000).                                       *)
(***************************************************************************)
EXTENDS Integers, Sequences, FiniteSets, TLC

VARIABLES centerline, rowPolygon, vertices, area, perimeter, csv, dms,
          bend, drawn, state, layers

vars == <<centerline, rowPolygon, vertices, area, perimeter, csv, dms,
          bend, drawn, state, layers>>

(* What the calls into the geometry engine leave alone.                    *)
others == <<bend, drawn, state, layers>>

(* ------------------------------ bounds -------------------------------- *)

MaxLen == 3

MaxSample == 150

MaxLines == 2

Coords == {0, 100, 200}

Points == {<<x, y>> : x \in Coords, y \in Coords}

Widths == {-10, 0, 10}

RECURSIVE SeqsUpTo(_, _)
SeqsUpTo(S, n) ==
  IF n = 0 THEN {<<>>}
  ELSE LET shorter == SeqsUpTo(S, n - 1)
       IN  shorter \cup {Append(s, e) : s \in {t \in shorter : Len(t) = n - 1}, e \in S}

SpatialReferences == {"wkid:3857", "wkid:4326"}

(* A Polyline as the engine sees it: paths is empty or holds one path, and *)
(* the spatial reference is a token.                                       *)
Centerlines ==
  {[paths |-> ps, spatialReference |-> sr] :
     ps \in {<<>>} \cup {<<p>> : p \in SeqsUpTo(Points, MaxLen)}, sr \in SpatialReferences}

(* ------------------------------ helpers ------------------------------- *)

Deg(d) == d * 1000000

Abs(v) == IF v < 0 THEN 0 - v ELSE v

Sgn(v) == IF v > 0 THEN 1 ELSE IF v < 0 THEN 0 - 1 ELSE 0

RECURSIVE Reverse(_)
Reverse(s) == IF s = <<>> THEN <<>> ELSE Append(Reverse(Tail(s)), Head(s))

RECURSIVE Gcd(_, _)
Gcd(a, b) == IF b = 0 THEN a ELSE Gcd(b, a % b)

RECURSIVE ISqrtBetween(_, _, _)
ISqrtBetween(n, lo, hi) ==
  IF hi - lo <= 1 THEN lo
  ELSE LET mid == (lo + hi) \div 2
       IN  IF mid * mid <= n THEN ISqrtBetween(n, mid, hi) ELSE ISqrtBetween(n, lo, mid)

ISqrt(n) == ISqrtBetween(n, 0, 46341)

(* ------------------- geometryEngine.offset, 'miter' ------------------- *)

Direction(p, q) == <<Sgn(q[1] - p[1]), Sgn(q[2] - p[2])>>

IsRectilinear(path) ==
  \A i \in 1..(Len(path) - 1) : path[i][1] = path[i + 1][1] \/ path[i][2] = path[i + 1][2]

IsDegenerate(path) ==
  Len(path) < 2 \/ \E i \in 1..(Len(path) - 1) : path[i] = path[i + 1]

(* p moved by distance to the right of the direction of travel u.          *)
Shift(p, distance, u) == <<p[1] + distance * u[2], p[2] - distance * u[1]>>

(* The offset vertices made for vertex i (1-based): one point at an end,   *)
(* on a straight run and at a mitered corner; two at a reversal, where     *)
(* the miter point does not exist and the join is beveled.                 *)
JoinPoints(path, distance, i) ==
  LET p == path[i]
  IN  IF i = 1 THEN <<Shift(p, distance, Direction(path[1], path[2]))>>
      ELSE IF i = Len(path) THEN <<Shift(p, distance, Direction(path[i - 1], p))>>
      ELSE LET uin  == Direction(path[i - 1], p)
               uout == Direction(p, path[i + 1])
           IN  IF uin = uout THEN <<Shift(p, distance, uin)>>
               ELSE IF uout = <<0 - uin[1], 0 - uin[2]>>
                 THEN <<Shift(p, distance, uin), Shift(p, distance, uout)>>
               ELSE <<Shift(Shift(p, distance, uin), distance, uout)>>

RECURSIVE OffsetPathFrom(_, _, _)
OffsetPathFrom(path, distance, i) ==
  IF i > Len(path) THEN <<>>
  ELSE JoinPoints(path, distance, i) \o OffsetPathFrom(path, distance, i + 1)

NoLine == [ok |-> FALSE, shared |-> FALSE, path |-> <<>>]

(* The results geometryEngine.offset can give for a polyline: no result,   *)
(* always for a line without two distinct consecutive points and possibly  *)
(* for any other; or the offset line, which for distance 0 has the input's *)
(* points and may be backed by the input's own path array.                 *)
OffsetResults(line, distance) ==
  IF Len(line.paths) = 0 \/ IsDegenerate(line.paths[1]) THEN {NoLine}
  ELSE {NoLine} \cup
       {[ok |-> TRUE, shared |-> sh, path |-> OffsetPathFrom(line.paths[1], distance, 1)] :
          sh \in IF distance = 0 THEN BOOLEAN ELSE {FALSE}}

(* --------------------------- buildRowPolygon --------------------------- *)

NoPolygon == [status |-> "none", rings |-> <<>>, spatialReference |-> "none",
              leftWidth |-> 0, rightWidth |-> 0,
              leftOffset |-> NoLine, rightOffset |-> NoLine]

(* Mutant: the right-hand offset is never tested.                           *)
OffsetFailed_LeftOnly(leftOffset, rightOffset) == ~leftOffset.ok

OffsetFailed(leftOffset, rightOffset) == ~leftOffset.ok \/ ~rightOffset.ok

(* rightPath.reverse() reverses the array in place, so leftPath[0] is read *)
(* after the reversal: when both offset lines are backed by one array it   *)
(* is the first point of the reversed path.                                *)
ClosingPoint(leftOffset, rightOffset) ==
  IF leftOffset.shared /\ rightOffset.shared
  THEN Reverse(rightOffset.path)[1]
  ELSE leftOffset.path[1]

(* Mutant: the ring is left open.                                          *)
BuildRing_Open(leftOffset, rightOffset) ==
  leftOffset.path \o Reverse(rightOffset.path)

BuildRing(leftOffset, rightOffset) ==
  leftOffset.path \o Reverse(rightOffset.path) \o <<ClosingPoint(leftOffset, rightOffset)>>

(* The polygon returned, or status "error" for the thrown Error, and the   *)
(* centerline as the call leaves it.                                       *)
buildRowPolygon(line, leftWidth, rightWidth, leftOffset, rightOffset) ==
  IF OffsetFailed(leftOffset, rightOffset)
  THEN [polygon |-> [NoPolygon EXCEPT !.status = "error", !.leftWidth = leftWidth,
                                      !.rightWidth = rightWidth,
                                      !.leftOffset = leftOffset,
                                      !.rightOffset = rightOffset],
        line |-> line]
  ELSE [polygon |-> [status |-> "ok",
                     rings |-> <<BuildRing(leftOffset, rightOffset)>>,
                     spatialReference |-> line.spatialReference,
                     leftWidth |-> leftWidth, rightWidth |-> rightWidth,
                     leftOffset |-> leftOffset, rightOffset |-> rightOffset],
        line |-> IF rightOffset.shared
                 THEN [line EXCEPT !.paths = <<Reverse(line.paths[1])>>]
                 ELSE line]

(* ------------------------ geometryEngine lengths ----------------------- *)

(* geodesicLength of the two-point segment p-q, in centimetres.            *)
SegmentLength(p, q) ==
  ISqrt(((q[1] - p[1]) * (q[1] - p[1]) + (q[2] - p[2]) * (q[2] - p[2])) * 10000)

(* ------------------------------ bearings ------------------------------- *)

(* atan(a / b) in micro-degrees for 0 <= a <= b, b > 0.                    *)
AtanOctant(a, b) ==
  LET g == Gcd(a, b)
      r == <<a \div g, b \div g>>
  IN  CASE r = <<0, 1>> -> 0
        [] r = <<1, 4>> -> 14036243
        [] r = <<1, 3>> -> 18434949
        [] r = <<1, 2>> -> 26565051
        [] r = <<2, 3>> -> 33690068
        [] r = <<3, 4>> -> 36869898
        [] r = <<1, 1>> -> 45000000

(* Math.atan2(y, x) * 180 / Math.PI for y >= 0, x >= 0, not both 0.        *)
AtanQuadrant(y, x) ==
  IF x = 0 THEN Deg(90)
  ELSE IF y <= x THEN AtanOctant(y, x)
  ELSE Deg(90) - AtanOctant(x, y)

(* Math.atan2(y, x) * 180 / Math.PI, in (-180, 180].                       *)
Atan2Deg(y, x) ==
  IF y = 0 /\ x = 0 THEN 0
  ELSE IF y >= 0
    THEN IF x >= 0 THEN AtanQuadrant(y, x) ELSE Deg(180) - AtanQuadrant(y, 0 - x)
  ELSE IF x >= 0 THEN 0 - AtanQuadrant(0 - y, x)
  ELSE AtanQuadrant(0 - y, 0 - x) - Deg(180)

(* Mutant: the bearing is not brought into [0, 360).                       *)
Bearing_Signed(dx, dy) == Atan2Deg(dx, dy)

Bearing(dx, dy) == (Atan2Deg(dx, dy) + Deg(360)) % Deg(360)

(* ---------------------------- decimalToDMS ----------------------------- *)

Digit(d) ==
  CASE d = 0 -> "0" [] d = 1 -> "1" [] d = 2 -> "2" [] d = 3 -> "3" [] d = 4 -> "4"
    [] d = 5 -> "5" [] d = 6 -> "6" [] d = 7 -> "7" [] d = 8 -> "8" [] d = 9 -> "9"

RECURSIVE Digits(_)
Digits(n) == IF n < 10 THEN <<Digit(n)>> ELSE Append(Digits(n \div 10), Digit(n % 10))

(* A whole number as a template literal or join() prints it.               *)
NumberText(n) == IF n < 0 THEN <<"-">> \o Digits(0 - n) ELSE Digits(n)

(* Mutant: the seconds are rounded to the nearest instead of truncated.    *)
DMSParts_Rounded(decimal) ==
  LET degrees        == decimal \div 1000000
      minutesDecimal == (decimal - degrees * 1000000) * 60
      minutes        == minutesDecimal \div 1000000
      seconds        == ((minutesDecimal - minutes * 1000000) * 60 + 500000) \div 1000000
  IN  [degrees |-> degrees, minutes |-> minutes, seconds |-> seconds]

(* degrees, minutes and seconds of a bearing in micro-degrees; the         *)
(* fractions are kept in micro-degrees and micro-minutes.                  *)
DMSParts(decimal) ==
  LET degrees        == decimal \div 1000000
      minutesDecimal == (decimal - degrees * 1000000) * 60
      minutes        == minutesDecimal \div 1000000
      seconds        == ((minutesDecimal - minutes * 1000000) * 60) \div 1000000
  IN  [degrees |-> degrees, minutes |-> minutes, seconds |-> seconds]

decimalToDMS(decimal) ==
  LET parts == DMSParts(decimal)
  IN  NumberText(parts.degrees) \o <<"Acirc", "deg", " ">> \o NumberText(parts.minutes) \o <<"'", " ">>
        \o NumberText(parts.seconds) \o <<"\"">>

(* ------------------------ computeVertexAnalytics ----------------------- *)

Deflection(bearing1, bearing2) ==
  LET d0 == bearing2 - bearing1
      d1 == IF d0 > Deg(180) THEN d0 - Deg(360) ELSE d0
  IN  IF d1 < 0 - Deg(180) THEN d1 + Deg(360) ELSE d1

(* Mutant: a deflection of exactly one degree already counts as a bend.    *)
BendDirection_FromOneDegree(deflection) ==
  IF Abs(deflection) >= Deg(1)
  THEN IF deflection > 0 THEN "Left" ELSE "Right"
  ELSE "Straight"

BendDirection(deflection) ==
  IF Abs(deflection) > Deg(1)
  THEN IF deflection > 0 THEN "Left" ELSE "Right"
  ELSE "Straight"

(* The bend computed at a vertex that has a previous and a next vertex,    *)
(* from the incoming and the outgoing bearing.                             *)
InteriorBend(bearing1, bearing2) ==
  LET deflection == Deflection(bearing1, bearing2)
  IN  [deflection |-> deflection,
       bendAngle |-> Abs(deflection),
       bendDirection |-> BendDirection(deflection)]

(* Mutant: the last index is taken to be length, one past the end.         *)
EndpointDirection_PastEnd(i, length) ==
  IF i = 0 THEN "Start"
  ELSE IF i = length THEN "End"
  ELSE "N/A"

(* The direction of a vertex that lacks a previous or a next vertex.       *)
EndpointDirection(i, length) ==
  IF i = 0 THEN "Start"
  ELSE IF i = length - 1 THEN "End"
  ELSE "N/A"

(* Mutant: the outgoing segment is not taken off the running total.        *)
DistanceFromStart_Ahead(i, cumulativeDistance, segmentLength) ==
  IF i = 0 THEN 0 ELSE cumulativeDistance

DistanceFromStart(i, cumulativeDistance, segmentLength) ==
  IF i = 0 THEN 0 ELSE cumulativeDistance - segmentLength

(* One pass of the loop body for the 0-based index i: the record pushed    *)
(* and the running cumulativeDistance after it.                            *)
VertexStep(path, i, cumulativeDistance) ==
  LET current  == path[i + 1]
      hasPrev  == i > 0
      hasNext  == i < Len(path) - 1
      bearing  == IF hasNext
                  THEN Bearing(path[i + 2][1] - current[1], path[i + 2][2] - current[2])
                  ELSE 0
      segmentLength == IF hasNext THEN SegmentLength(current, path[i + 2]) ELSE 0
      cumulative    == cumulativeDistance + segmentLength
      deflection == IF hasPrev /\ hasNext
                    THEN Deflection(Bearing(current[1] - path[i][1], current[2] - path[i][2]),
                                    Bearing(path[i + 2][1] - current[1],
                                            path[i + 2][2] - current[2]))
                    ELSE 0
  IN  [cumulativeDistance |-> cumulative,
       vertex |-> [index |-> i, x |-> current[1], y |-> current[2],
                   bearing |-> bearing,
                   bearingDMS |-> decimalToDMS(bearing),
                   bendAngle |-> Abs(deflection),
                   bendDirection |-> IF hasPrev /\ hasNext THEN BendDirection(deflection)
                                     ELSE EndpointDirection(i, Len(path)),
                   segmentLength |-> segmentLength,
                   distanceFromStart |-> DistanceFromStart(i, cumulative, segmentLength)]]

RECURSIVE VertexLoop(_, _, _, _)
VertexLoop(path, i, cumulativeDistance, out) ==
  IF i >= Len(path) THEN out
  ELSE LET step == VertexStep(path, i, cumulativeDistance)
       IN  VertexLoop(path, i + 1, step.cumulativeDistance, Append(out, step.vertex))

(* Mutant: a one-point path is walked like any other.                      *)
computeVertexAnalytics_NoMinimum(polyline) ==
  IF Len(polyline.paths) = 0 THEN <<>>
  ELSE VertexLoop(polyline.paths[1], 0, 0, <<>>)

computeVertexAnalytics(polyline) ==
  IF Len(polyline.paths) = 0 \/ Len(polyline.paths[1]) < 2 THEN <<>>
  ELSE VertexLoop(polyline.paths[1], 0, 0, <<>>)

(* ---------------------- calculateArea / Perimeter ---------------------- *)

RECURSIVE RingCross(_, _)
RingCross(ring, i) ==
  IF i >= Len(ring) THEN 0
  ELSE ring[i][1] * ring[i + 1][2] - ring[i + 1][1] * ring[i][2] + RingCross(ring, i + 1)

RECURSIVE RingLength(_, _)
RingLength(ring, i) ==
  IF i >= Len(ring) THEN 0
  ELSE SegmentLength(ring[i], ring[i + 1]) + RingLength(ring, i + 1)

(* geometryEngine.geodesicArea: signed, a clockwise ring counting          *)
(* positive and a counter-clockwise ring negative; square metres.          *)
RECURSIVE GeodesicAreaFrom(_, _)
GeodesicAreaFrom(rings, k) ==
  IF k > Len(rings) THEN 0
  ELSE (0 - RingCross(rings[k], 1)) \div 2 + GeodesicAreaFrom(rings, k + 1)

GeodesicArea(polygon) == GeodesicAreaFrom(polygon.rings, 1)

(* geometryEngine.geodesicLength of a polygon: the length of its rings,    *)
(* in centimetres.                                                         *)
RECURSIVE GeodesicLengthFrom(_, _)
GeodesicLengthFrom(rings, k) ==
  IF k > Len(rings) THEN 0
  ELSE RingLength(rings[k], 1) + GeodesicLengthFrom(rings, k + 1)

GeodesicLength(polygon) == GeodesicLengthFrom(polygon.rings, 1)

calculateArea(polygon) == GeodesicArea(polygon)

calculatePerimeter(polygon) == GeodesicLength(polygon)

(* -------------------------- exportVerticesCSV -------------------------- *)

RECURSIVE Pow10(_)
Pow10(n) == IF n = 0 THEN 1 ELSE 10 * Pow10(n - 1)

RECURSIVE PadDigits(_, _)
PadDigits(n, width) ==
  IF width = 0 THEN <<>> ELSE Append(PadDigits(n \div 10, width - 1), Digit(n % 10))

(* Mutant: the decimal separator of a comma locale.                        *)
DecimalComma == <<",">>

DecimalPoint == <<".">>

(* Number.prototype.toFixed(digits) of value / 10^scale, for scale >=      *)
(* digits or scale = 0; a tie rounds away from zero.                       *)
ToFixed(value, scale, digits) ==
  LET magnitude == Abs(value)
      rounded == IF scale = 0 THEN magnitude * Pow10(digits)
                 ELSE IF scale = digits THEN magnitude
                 ELSE (magnitude + Pow10(scale - digits) \div 2) \div Pow10(scale - digits)
  IN  (IF value < 0 THEN <<"-">> ELSE <<>>)
        \o Digits(rounded \div Pow10(digits)) \o DecimalPoint
        \o PadDigits(rounded % Pow10(digits), digits)

DirectionText(d) ==
  CASE d = "Start" -> <<"S", "t", "a", "r", "t">>
    [] d = "End" -> <<"E", "n", "d">>
    [] d = "Straight" -> <<"S", "t", "r", "a", "i", "g", "h", "t">>
    [] d = "Left" -> <<"L", "e", "f", "t">>
    [] d = "Right" -> <<"R", "i", "g", "h", "t">>
    [] d = "N/A" -> <<"N", "/", "A">>

Headers ==
  <<<<"I", "n", "d", "e", "x">>,
     <<"X">>,
     <<"Y">>,
     <<"B", "e", "a", "r", "i", "n", "g">>,
     <<"B", "e", "a", "r", "i", "n", "g", " ", "D", "M", "S">>,
     <<"B", "e", "n", "d", " ", "A", "n", "g", "l", "e">>,
     <<"B", "e", "n", "d", " ", "D", "i", "r", "e", "c", "t", "i", "o", "n">>,
     <<"S", "e", "g", "m", "e", "n", "t", " ", "L", "e", "n", "g", "t", "h", " ", "(", "m", ")">>,
     <<"D", "i", "s", "t", "a", "n", "c", "e", " ", "F", "r", "o", "m", " ", "S", "t", "a", "r", "t", " ", "(", "m", ")">>>>

RECURSIVE JoinFrom(_, _, _)
JoinFrom(parts, separator, i) ==
  IF i > Len(parts) THEN <<>>
  ELSE IF i = Len(parts) THEN parts[i]
  ELSE parts[i] \o <<separator>> \o JoinFrom(parts, separator, i + 1)

(* Array.prototype.join: an empty array joins to the empty string.         *)
Join(parts, separator) == JoinFrom(parts, separator, 1)

CsvRow(v) ==
  <<NumberText(v.index),
    ToFixed(v.x, 0, 6),
    ToFixed(v.y, 0, 6),
    ToFixed(v.bearing, 6, 2),
    v.bearingDMS,
    ToFixed(v.bendAngle, 6, 2),
    DirectionText(v.bendDirection),
    ToFixed(v.segmentLength, 2, 2),
    ToFixed(v.distanceFromStart, 2, 2)>>

(* The text handed to downloadText.                                        *)
exportVerticesCSV(records) ==
  LET rows == [i \in 1..Len(records) |-> CsvRow(records[i])]
  IN  Join(<<Join(Headers, ",")>> \o [i \in 1..Len(rows) |-> Join(rows[i], ",")], "\n")

(* ------------------------------ the calls ------------------------------ *)

NoCenterline == [paths |-> <<>>, spatialReference |-> "wkid:3857"]

NotComputed == [called |-> FALSE, value |-> 0]

NoRecords == [called |-> FALSE, records |-> <<>>]

NoText == [called |-> FALSE, text |-> <<>>]

NoDMS == [called |-> FALSE, decimal |-> 0, text |-> <<>>]

NoBend == [called |-> FALSE, bearing1 |-> 0, bearing2 |-> 0, deflection |-> 0,
           bendAngle |-> 0, bendDirection |-> "N/A"]

(* The widget's state after its constructor.                               *)
InitialState ==
  [leftWidth |-> 50, rightWidth |-> 50, drawingMethod |-> "sketch", isDrawing |-> FALSE,
   lines |-> <<>>, polygons |-> <<>>, nextLineId |-> 1, nextPolygonId |-> 1]

(* The graphics the widget has put on its three layers, none at first.     *)
NoGraphics == [centerline |-> <<>>, row |-> <<>>, preview |-> <<>>]

Init ==
  /\ centerline \in Centerlines
  /\ drawn = centerline
  /\ rowPolygon = NoPolygon
  /\ vertices = NoRecords
  /\ area = NotComputed
  /\ perimeter = NotComputed
  /\ csv = NoText
  /\ dms = NoDMS
  /\ bend = NoBend
  /\ state = InitialState
  /\ layers = NoGraphics

(* buildRowPolygon on the centerline with widths the user has typed. The   *)
(* centerlines offered to it are the rectilinear ones, whose mitered       *)
(* offsets have whole-number coordinates.                                  *)
BuildRowPolygon ==
  /\ rowPolygon.status = "none"
  /\ ~vertices.called
  /\ IF Len(centerline.paths) = 0 THEN TRUE ELSE IsRectilinear(centerline.paths[1])
  /\ \E leftWidth \in Widths, rightWidth \in Widths :
       \E leftOffset \in OffsetResults(centerline, leftWidth),
          rightOffset \in OffsetResults(centerline, 0 - rightWidth) :
         LET out == buildRowPolygon(centerline, leftWidth, rightWidth, leftOffset, rightOffset)
         IN  /\ rowPolygon' = out.polygon
             /\ centerline' = out.line
  /\ UNCHANGED <<vertices, area, perimeter, csv, dms, others>>

CalculateArea ==
  /\ rowPolygon.status = "ok"
  /\ ~area.called
  /\ area' = [called |-> TRUE, value |-> calculateArea(rowPolygon)]
  /\ UNCHANGED <<centerline, rowPolygon, vertices, perimeter, csv, dms, others>>

CalculatePerimeter ==
  /\ rowPolygon.status = "ok"
  /\ ~perimeter.called
  /\ perimeter' = [called |-> TRUE, value |-> calculatePerimeter(rowPolygon)]
  /\ UNCHANGED <<centerline, rowPolygon, vertices, area, csv, dms, others>>

ComputeVertexAnalytics ==
  /\ rowPolygon.status = "none"
  /\ ~vertices.called
  /\ vertices' = [called |-> TRUE, records |-> computeVertexAnalytics(centerline)]
  /\ UNCHANGED <<centerline, rowPolygon, area, perimeter, csv, dms, others>>

ExportVerticesCSV ==
  /\ vertices.called
  /\ ~csv.called
  /\ csv' = [called |-> TRUE, text |-> exportVerticesCSV(vertices.records)]
  /\ UNCHANGED <<centerline, rowPolygon, vertices, area, perimeter, dms, others>>

Next ==
  \/ BuildRowPolygon
  \/ CalculateArea
  \/ CalculatePerimeter
  \/ ComputeVertexAnalytics
  \/ ExportVerticesCSV

Spec == Init /\ [][Next]_vars

(* decimalToDMS on its own, over bearings in [0, 360).                     *)
DMSInputs ==
  {(i * 7654321) % Deg(360) : i \in 0..MaxSample} \cup {45500000, 359999999}

(* Nothing drawn and nothing called yet.                                   *)
Idle ==
  /\ centerline = NoCenterline
  /\ drawn = NoCenterline
  /\ rowPolygon = NoPolygon
  /\ vertices = NoRecords
  /\ area = NotComputed
  /\ perimeter = NotComputed
  /\ csv = NoText
  /\ dms = NoDMS
  /\ bend = NoBend
  /\ state = InitialState
  /\ layers = NoGraphics

InitDMS == Idle

DecimalToDMS ==
  /\ ~dms.called
  /\ \E decimal \in DMSInputs :
       dms' = [called |-> TRUE, decimal |-> decimal, text |-> decimalToDMS(decimal)]
  /\ UNCHANGED <<centerline, rowPolygon, vertices, area, perimeter, csv, others>>

NextDMS == DecimalToDMS

SpecDMS == InitDMS /\ [][NextDMS]_vars

(* The bend of an interior vertex on its own, over pairs of bearings in    *)
(* [0, 360): the compass points, and bearings one degree, just over one    *)
(* degree and half a degree away from them.                                *)
BendInputs ==
  {0, 500000, 1000000, 1000001, 2000000, 45000000, 90000000, 179000000, 180000000,
   180000001, 181000000, 270000000, 359000000, 359999999}

InitBend == Idle

ComputeBend ==
  /\ ~bend.called
  /\ \E bearing1 \in BendInputs, bearing2 \in BendInputs :
       LET b == InteriorBend(bearing1, bearing2)
       IN  bend' = [called |-> TRUE, bearing1 |-> bearing1, bearing2 |-> bearing2,
                    deflection |-> b.deflection, bendAngle |-> b.bendAngle,
                    bendDirection |-> b.bendDirection]
  /\ UNCHANGED <<centerline, rowPolygon, vertices, area, perimeter, csv, dms,
                 drawn, state, layers>>

NextBend == ComputeBend

SpecBend == InitBend /\ [][NextBend]_vars

(* ------------------------------ the widget ----------------------------- *)

(* The paths a drawing hands over: a single vertex, a straight centerline  *)
(* and one whose two vertices coincide.                                    *)
DrawnPaths ==
  {<<<<0, 0>>>>, <<<<0, 0>>, <<0, 100>>>>, <<<<0, 0>>, <<0, 0>>>>}

(* What the width inputs hand to the state: a cleared field reads as 0.    *)
TypedWidths == {0}

ViewSpatialReference == "wkid:3857"

DrawnPolyline(path) == [paths |-> <<path>>, spatialReference |-> ViewSpatialReference]

(* The state and layers once addLine has stored the line and its graphic,  *)
(* before its setState callback runs buildROW.                             *)
addLine(st, ly, geometry) ==
  [state  |-> [st EXCEPT !.lines = Append(st.lines,
                                           [id |-> st.nextLineId, geometry |-> geometry,
                                            leftWidth |-> st.leftWidth,
                                            rightWidth |-> st.rightWidth,
                                            totalWidth |-> st.leftWidth + st.rightWidth]),
                         !.nextLineId = st.nextLineId + 1],
   layers |-> [ly EXCEPT !.centerline =
                 Append(ly.centerline, [type |-> "centerline", id |-> st.nextLineId])]]

(* What the try block of buildROW does with the polygon it was given.      *)
StorePolygon(st, ly, lineId, polygon) ==
  [state  |-> [st EXCEPT !.polygons = Append(st.polygons,
                                              [id |-> st.nextPolygonId, lineId |-> lineId,
                                               geometry |-> [rings |-> polygon.rings,
                                                             spatialReference |->
                                                               polygon.spatialReference],
                                               area |-> calculateArea(polygon),
                                               perimeter |-> calculatePerimeter(polygon)]),
                         !.nextPolygonId = st.nextPolygonId + 1],
   layers |-> [ly EXCEPT !.row =
                 Append(ly.row, [type |-> "row", id |-> st.nextPolygonId, lineId |-> lineId])]]

AlertOnly_SkipsId(st, ly, lineId, polygon) ==
  [state |-> [st EXCEPT !.nextPolygonId = st.nextPolygonId + 1], layers |-> ly]

(* What the catch block of buildROW does: an alert, nothing stored.        *)
AlertOnly(st, ly, lineId, polygon) == [state |-> st, layers |-> ly]

(* buildROW for the line just stored, with the offset lines the engine     *)
(* gave. The geometry of the line record is the object buildRowPolygon was *)
(* handed, so a reversal of its path shows in the record.                  *)
buildROW(st, ly, lineId, leftOffset, rightOffset) ==
  LET line == CHOOSE l \in {st.lines[i] : i \in 1..Len(st.lines)} : l.id = lineId
      out  == buildRowPolygon(line.geometry, line.leftWidth, line.rightWidth,
                              leftOffset, rightOffset)
      kept == [st EXCEPT !.lines = [i \in 1..Len(st.lines) |->
                                      IF st.lines[i].id = lineId
                                      THEN [st.lines[i] EXCEPT !.geometry = out.line]
                                      ELSE st.lines[i]]]
      done == IF out.polygon.status = "ok"
              THEN StorePolygon(kept, ly, lineId, out.polygon)
              ELSE AlertOnly(kept, ly, lineId, out.polygon)
  IN  [state |-> done.state, layers |-> done.layers, polygon |-> out.polygon]

(* The preview layer after the try/catch of updateRealtimePreview.         *)
PreviewGraphics(polygon) ==
  IF polygon.status = "ok"
  THEN <<[type |-> "row"], [type |-> "centerline"]>>
  ELSE <<[type |-> "centerline"]>>

deleteLine(st, ly, lineId) ==
  LET KeepLine(l) == l.id # lineId
      KeepGraphic(g) == g.id # lineId
  IN  [state  |-> [st EXCEPT !.lines = SelectSeq(st.lines, KeepLine)],
       layers |-> [ly EXCEPT !.centerline = SelectSeq(ly.centerline, KeepGraphic)]]

deletePolygon(st, ly, polygonId) ==
  LET KeepPolygon(q) == q.id # polygonId
      KeepGraphic(g) == g.id # polygonId
  IN  [state  |-> [st EXCEPT !.polygons = SelectSeq(st.polygons, KeepPolygon)],
       layers |-> [ly EXCEPT !.row = SelectSeq(ly.row, KeepGraphic)]]

engine == <<centerline, vertices, area, perimeter, csv, dms, bend, drawn>>

InitWidget == Idle

(* The width inputs: parseFloat of the text, or 0.                         *)
SetLeftWidth ==
  /\ \E width \in TypedWidths : state' = [state EXCEPT !.leftWidth = width]
  /\ UNCHANGED <<engine, rowPolygon, layers>>

SetRightWidth ==
  /\ \E width \in TypedWidths : state' = [state EXCEPT !.rightWidth = width]
  /\ UNCHANGED <<engine, rowPolygon, layers>>

(* The drawing method select; the method is chosen between drawings, so    *)
(* that the method in the state is the tool that is drawing.               *)
SetDrawingMethod ==
  /\ ~state.isDrawing
  /\ \E method \in {"sketch", "realtime"} :
       state' = [state EXCEPT !.drawingMethod = method]
  /\ UNCHANGED <<engine, rowPolygon, layers>>

(* The Add Centerline button, with a project name entered; the button is   *)
(* disabled while a drawing is going on.                                   *)
HandleDrawLine ==
  /\ ~state.isDrawing
  /\ state.nextLineId <= MaxLines
  /\ state' = [state EXCEPT !.isDrawing = TRUE]
  /\ layers' = IF state.drawingMethod = "realtime"
               THEN [layers EXCEPT !.preview = <<>>]
               ELSE layers
  /\ UNCHANGED <<engine, rowPolygon>>

(* addLine with its setState callback, then isDrawing is cleared.          *)
AddLineAndBuild(st, ly, geometry, leftOffset, rightOffset) ==
  LET added == addLine(st, ly, geometry)
      built == buildROW(added.state, added.layers, st.nextLineId, leftOffset, rightOffset)
  IN  [state |-> [built.state EXCEPT !.isDrawing = FALSE],
       layers |-> built.layers, polygon |-> built.polygon]

(* What buildRowPolygon can return for a centerline and the widths in the  *)
(* state, over the offset lines the engine can give.                       *)
BuildOutcomes(st, line) ==
  {buildRowPolygon(line, st.leftWidth, st.rightWidth, leftOffset, rightOffset) :
     leftOffset \in OffsetResults(line, st.leftWidth),
     rightOffset \in OffsetResults(line, 0 - st.rightWidth)}

(* What addLine and its callback can leave behind for a centerline.        *)
AddLineOutcomes(st, ly, line) ==
  {AddLineAndBuild(st, ly, line, leftOffset, rightOffset) :
     leftOffset \in OffsetResults(line, st.leftWidth),
     rightOffset \in OffsetResults(line, 0 - st.rightWidth)}

(* The 'create' event of the sketch, state 'complete'.                     *)
SketchCreateComplete ==
  /\ state.isDrawing
  /\ state.drawingMethod = "sketch"
  /\ \E path \in {q \in DrawnPaths : Len(q) >= 2} :
       \E out \in AddLineOutcomes(state, layers, DrawnPolyline(path)) :
         /\ state' = out.state
         /\ layers' = out.layers
         /\ rowPolygon' = out.polygon
  /\ UNCHANGED engine

(* updateRealtimePreview for an event that is not 'draw-complete', or that *)
(* has a single vertex.                                                    *)
UpdateRealtimePreview ==
  /\ state.isDrawing
  /\ state.drawingMethod = "realtime"
  /\ \E path \in DrawnPaths :
       IF Len(path) > 1
       THEN \E out \in BuildOutcomes(state, DrawnPolyline(path)) :
              /\ rowPolygon' = out.polygon
              /\ layers' = [layers EXCEPT !.preview = PreviewGraphics(out.polygon)]
       ELSE UNCHANGED <<rowPolygon, layers>>
  /\ UNCHANGED <<engine, state>>

(* updateRealtimePreview for the 'draw-complete' event: the preview is     *)
(* built, then removed, and the centerline, as the preview's call to       *)
(* buildRowPolygon left it, goes to addLine.                               *)
DrawComplete ==
  /\ state.isDrawing
  /\ state.drawingMethod = "realtime"
  /\ \E path \in {q \in DrawnPaths : Len(q) > 1} :
       \E line \in {preview.line : preview \in BuildOutcomes(state, DrawnPolyline(path))} :
         \E out \in AddLineOutcomes(state, [layers EXCEPT !.preview = <<>>], line) :
           /\ state' = out.state
           /\ layers' = out.layers
           /\ rowPolygon' = out.polygon
  /\ UNCHANGED engine

DeleteLine ==
  /\ \E lineId \in 1..MaxLines :
       LET out == deleteLine(state, layers, lineId)
       IN  state' = out.state /\ layers' = out.layers
  /\ UNCHANGED <<engine, rowPolygon>>

DeletePolygon ==
  /\ \E polygonId \in 1..MaxLines :
       LET out == deletePolygon(state, layers, polygonId)
       IN  state' = out.state /\ layers' = out.layers
  /\ UNCHANGED <<engine, rowPolygon>>

NextWidget ==
  \/ SetLeftWidth
  \/ SetRightWidth
  \/ SetDrawingMethod
  \/ HandleDrawLine
  \/ SketchCreateComplete
  \/ UpdateRealtimePreview
  \/ DrawComplete
  \/ DeleteLine
  \/ DeletePolygon

SpecWidget == InitWidget /\ [][NextWidget]_vars

(* ------------------------------ properties ----------------------------- *)

Path == IF Len(centerline.paths) = 0 THEN <<>> ELSE centerline.paths[1]

Ring == rowPolygon.rings[1]

BuiltWithWidths ==
  /\ rowPolygon.status = "ok"
  /\ rowPolygon.leftWidth # 0
  /\ rowPolygon.rightWidth # 0
  /\ Len(Path) >= 2

C2_OffsetFailureThrows ==
  rowPolygon.status # "none" =>
    /\ (~rowPolygon.leftOffset.ok \/ ~rowPolygon.rightOffset.ok) => rowPolygon.status = "error"
    /\ rowPolygon.status = "error" => rowPolygon.rings = <<>>
    /\ rowPolygon.status = "ok" => rowPolygon.leftOffset.ok /\ rowPolygon.rightOffset.ok

C2_Witness ==
  /\ rowPolygon.status = "error"
  /\ rowPolygon.leftOffset.ok
  /\ ~rowPolygon.rightOffset.ok

RightAngleBend == <<<<0, 0>>, <<0, 100>>, <<100, 100>>>>

(* The turn at the 1-based interior vertex i is clockwise.                 *)
TurnsClockwise(path, i) ==
  (path[i][1] - path[i - 1][1]) * (path[i + 1][2] - path[i][2])
    - (path[i][2] - path[i - 1][2]) * (path[i + 1][1] - path[i][1]) < 0

(* C3: for the centerline (0,0),(0,100),(100,100) the middle vertex is     *)
(* reported with bend direction "Right" and bend angle 90; any clockwise   *)
(* turn is reported as "Right".                                            *)
C3_ClockwiseTurnIsRight ==
  vertices.called =>
    /\ Path = RightAngleBend =>
         /\ vertices.records[2].bendDirection = "Right"
         /\ vertices.records[2].bendAngle = Deg(90)
    /\ \A i \in 2..(Len(vertices.records) - 1) :
         TurnsClockwise(Path, i) => vertices.records[i].bendDirection = "Right"

(* C4: for a centerline of at least 2 vertices the first record has        *)
(* direction "Start" and bend angle 0, the last has direction "End" and    *)
(* bend angle 0, and no record has direction "N/A".                        *)
C4_EndpointClassification ==
  (vertices.called /\ Len(Path) >= 2) =>
    LET r == vertices.records
    IN  /\ Len(r) >= 2
        /\ r[1].bendDirection = "Start" /\ r[1].bendAngle = 0
        /\ r[Len(r)].bendDirection = "End" /\ r[Len(r)].bendAngle = 0
        /\ \A i \in 1..Len(r) : r[i].bendDirection # "N/A"

C4_Witness ==
  /\ vertices.called
  /\ Len(Path) = 2
  /\ Len(vertices.records) = 2
  /\ vertices.records[2].bendDirection = "End"

(* The length of the first k segments of path.                             *)
RECURSIVE LengthOfSegments(_, _)
LengthOfSegments(path, k) ==
  IF k = 0 THEN 0
  ELSE LengthOfSegments(path, k - 1) + SegmentLength(path[k], path[k + 1])

(* C5: distanceFromStart is 0 at index 0, at index i > 0 it is the sum of  *)
(* the lengths of the segments leaving vertices 0..i-1, the last record    *)
(* carries the whole length, and it never decreases along the line.        *)
C5_DistanceToReachVertex ==
  (vertices.called /\ Len(Path) >= 2) =>
    LET r == vertices.records
    IN  /\ r[1].distanceFromStart = 0
        /\ \A i \in 1..Len(r) : r[i].distanceFromStart = LengthOfSegments(Path, i - 1)
        /\ r[Len(r)].distanceFromStart = LengthOfSegments(Path, Len(Path) - 1)
        /\ \A i \in 1..(Len(r) - 1) : r[i].distanceFromStart <= r[i + 1].distanceFromStart

C5_Witness ==
  /\ vertices.called
  /\ Len(vertices.records) = 3
  /\ vertices.records[2].distanceFromStart = 10000
  /\ vertices.records[3].distanceFromStart = 24142

(* C6: every record has a bearing in [0, 360) and a bend angle in          *)
(* [0, 180].                                                               *)
C6_BearingAndBendRanges ==
  vertices.called =>
    \A i \in 1..Len(vertices.records) :
      /\ 0 <= vertices.records[i].bearing
      /\ vertices.records[i].bearing < Deg(360)
      /\ 0 <= vertices.records[i].bendAngle
      /\ vertices.records[i].bendAngle <= Deg(180)

C6_Witness ==
  /\ vertices.called
  /\ Len(vertices.records) = 3
  /\ vertices.records[1].bearing > Deg(180)
  /\ vertices.records[2].bendAngle = Deg(180)

(* C7: computeVertexAnalytics gives no records for a centerline with no    *)
(* path or fewer than 2 points, and for n >= 2 points gives n records,     *)
(* the one at position i with index i and the x, y of vertex i.            *)
C7_OneRecordPerVertex ==
  vertices.called =>
    LET r == vertices.records
    IN  /\ Len(Path) < 2 => r = <<>>
        /\ Len(Path) >= 2 =>
             /\ Len(r) = Len(Path)
             /\ \A i \in 1..Len(r) :
                  r[i].index = i - 1 /\ r[i].x = Path[i][1] /\ r[i].y = Path[i][2]

C7_Witness ==
  /\ vertices.called
  /\ Len(Path) = 3
  /\ Len(vertices.records) = 3
  /\ vertices.records[3].index = 2

(* C8: calculateArea and calculatePerimeter are never negative, whatever   *)
(* the winding of the ring buildRowPolygon made.                           *)
C8_AreaPerimeterNonNegative ==
  /\ area.called => area.value >= 0
  /\ perimeter.called => perimeter.value >= 0

(* The whole arc-seconds in a bearing of micro-degrees.                    *)
ArcSeconds(decimal) ==
  (decimal \div 1000000) * 3600 + ((decimal % 1000000) * 36) \div 10000

DMSText(degrees, minutes, seconds) ==
  NumberText(degrees) \o <<"Acirc", "deg", " ">> \o NumberText(minutes) \o <<"'", " ">>
    \o NumberText(seconds) \o <<"\"">>

(* C9: the DMS text of a bearing in [0, 360) carries the bearing           *)
(* truncated to whole arc-seconds: degrees = floor(b), minutes and seconds *)
(* in 0..59 obtained by flooring, never rounding, with no sign; 45.5       *)
(* gives 45, 30, 0.                                                        *)
C9_DMSTruncates ==
  dms.called =>
    LET t == ArcSeconds(dms.decimal)
        degrees == t \div 3600
        minutes == (t % 3600) \div 60
        seconds == t % 60
    IN  /\ degrees = dms.decimal \div 1000000
        /\ minutes \in 0..59 /\ seconds \in 0..59
        /\ dms.text = DMSText(degrees, minutes, seconds)
        /\ \A i \in 1..Len(dms.text) : dms.text[i] \notin {"-", "N", "S", "E", "W"}
        /\ dms.decimal = 45500000 => dms.text = DMSText(45, 30, 0)

C9_Witness ==
  /\ dms.called
  /\ dms.decimal = 45500000
  /\ dms.text = DMSText(45, 30, 0)

(* The pieces of text between the separators, in order.                    *)
Split(text, separator) ==
  LET at == {i \in 1..Len(text) : text[i] = separator}
      Nth(k) == IF k = 0 THEN 0
                ELSE IF k > Cardinality(at) THEN Len(text) + 1
                ELSE CHOOSE p \in at : Cardinality({q \in at : q < p}) = k - 1
  IN  [k \in 1..(Cardinality(at) + 1) |-> SubSeq(text, Nth(k - 1) + 1, Nth(k) - 1)]

(* C10: the CSV of k records has k+1 lines, the header and then one row    *)
(* per record in record order, and every line has 9 comma-separated        *)
(* fields.                                                                 *)
C10_CsvLinesAndFields ==
  csv.called =>
    LET lines == Split(csv.text, "\n")
    IN  /\ Len(lines) = Len(vertices.records) + 1
        /\ Split(lines[1], ",") = Headers
        /\ \A i \in 1..Len(lines) : Len(Split(lines[i], ",")) = 9
        /\ \A i \in 1..Len(vertices.records) :
             Split(lines[i + 1], ",")[1] = NumberText(vertices.records[i].index)

C10_Witness ==
  /\ csv.called
  /\ Len(vertices.records) = 3
  /\ Len(Split(csv.text, "\n")) = 4

(* C11: at an interior vertex the direction follows the signed deflection  *)
(* d, the outgoing bearing minus the incoming bearing taken within half a  *)
(* turn: "Straight" for |d| <= 1 degree, "Left" for d > 1, "Right" for     *)
(* d < -1, and exactly one of the three.                                   *)
C11_DirectionFromDeflection ==
  bend.called =>
    LET d == bend.deflection
    IN  /\ (d - (bend.bearing2 - bend.bearing1)) % Deg(360) = 0
        /\ Abs(d) <= Deg(180)
        /\ bend.bendDirection \in {"Straight", "Left", "Right"}
        /\ (bend.bendDirection = "Straight") <=> (Abs(d) <= Deg(1))
        /\ (bend.bendDirection = "Left") <=> (d > Deg(1))
        /\ (bend.bendDirection = "Right") <=> (d < 0 - Deg(1))

C11_Witness ==
  /\ bend.called
  /\ bend.deflection = Deg(1)
  /\ bend.bendDirection = "Straight"

(* C12: the signed deflection lies in (-180, 180]: it is never exactly     *)
(* -180, a full reversal being reported as +180, and never outside.        *)
C12_DeflectionHalfOpen ==
  bend.called =>
    /\ bend.deflection > 0 - Deg(180)
    /\ bend.deflection <= Deg(180)
    /\ Abs(bend.bearing2 - bend.bearing1) = Deg(180) => bend.deflection = Deg(180)

(* C13: buildRowPolygon and computeVertexAnalytics leave the centerline    *)
(* they are given as it was, points in order and spatial reference, also   *)
(* when an offset line shares its path with the centerline; the polygon    *)
(* returned carries the centerline's spatial reference.                    *)
C13_CenterlineUnchanged ==
  (rowPolygon.status # "none" \/ vertices.called) =>
    /\ centerline.paths = drawn.paths
    /\ centerline.spatialReference = drawn.spatialReference
    /\ rowPolygon.status = "ok" => rowPolygon.spatialReference = drawn.spatialReference

(* A step of updateRealtimePreview: the state is as it was while the       *)
(* preview or the last polygon result changed.                             *)
PreviewStep == state' = state /\ <<rowPolygon, layers>>' # <<rowPolygon, layers>>

(* A step that ran addLine and its buildROW callback.                      *)
AddLineStep == state'.nextLineId = state.nextLineId + 1

(* C14: when buildRowPolygon fails the widget falls back to the centerline *)
(* alone. In the realtime preview only the centerline graphic is shown; in *)
(* buildROW the new line record stays in lines with its centerline graphic,*)
(* no PolygonRecord and no ROW graphic is added and nextPolygonId is as it *)
(* was.                                                                    *)
C14_FailureFallsBackToCenterline ==
  [][/\ (PreviewStep /\ rowPolygon'.status = "error") =>
          /\ layers'.preview = <<[type |-> "centerline"]>>
          /\ layers'.row = layers.row
          /\ layers'.centerline = layers.centerline
     /\ (AddLineStep /\ rowPolygon'.status = "error") =>
          /\ Len(state'.lines) = Len(state.lines) + 1
          /\ state'.lines[Len(state'.lines)].id = state.nextLineId
          /\ SubSeq(state'.lines, 1, Len(state.lines)) = state.lines
          /\ \E i \in 1..Len(layers'.centerline) :
               layers'.centerline[i] = [type |-> "centerline", id |-> state.nextLineId]
          /\ state'.polygons = state.polygons
          /\ layers'.row = layers.row
          /\ state'.nextPolygonId = state.nextPolygonId]_vars

(* A line was added while buildRowPolygon failed, and a later realtime     *)
(* preview failed as well.                                                 *)
C14_Witness ==
  /\ state.nextLineId = 2
  /\ Len(state.lines) = 1
  /\ state.polygons = <<>>
  /\ state.nextPolygonId = 1
  /\ layers.row = <<>>
  /\ state.isDrawing
  /\ rowPolygon.status = "error"
  /\ layers.preview = <<[type |-> "centerline"]>>

(* C15: after any sequence of addLine, deleteLine and deletePolygon every  *)
(* PolygonRecord's lineId is the id of a LineRecord in lines, and each     *)
(* line id is the lineId of at most one polygon.                           *)
C15_PolygonsReferenceLines ==
  /\ \A i \in 1..Len(state.polygons) :
       \E j \in 1..Len(state.lines) : state.lines[j].id = state.polygons[i].lineId
  /\ \A i, j \in 1..Len(state.polygons) :
       state.polygons[i].lineId = state.polygons[j].lineId => i = j

====
